---- MODULE Spec2Model ----
(***************************************************************************)
(* A model of src/src/lib.rs: SyncUnsafeCell<T>, a #[repr(transparent)]    *)
(* wrapper of UnsafeCell<T> that is Sync when T is Sync.                   *)
(*                                                                         *)
(* Memory is a map from addresses to objects.  A cell lives at an address; *)
(* its representation is the struct { value }.  Threads hold shared        *)
(* references (&SyncUnsafeCell), the exclusive reference returned by       *)
(* get_mut (&mut T) and raw pointers, *mut T.  The guards of the           *)
(* operations are the receiver kinds of the signatures (self, &self,       *)
(* &mut self, *const Self) under Rust's borrow rules.  Accesses through    *)
(* raw pointers are the callers' unsafe code: they take two steps (begin,  *)
(* end), so that overlapping accesses exist as states.                     *)
(***************************************************************************)
EXTENDS Integers, FiniteSets

\* ---- bounds of the model ----
NThreads == 2
NCells == 1
NAddrs == 1
MaxVal == 1

Threads == 1..NThreads
Cells == 1..NCells
Addrs == 1..NAddrs
Values == 0..MaxVal

\* <T as Default>::default(), for the integer T of the model.
TDefault == 0

\* #[repr(transparent)]: the field `value` lies at offset 0 of the struct.
ValueOffset == 0

\* Memory that holds no live object (its bits are no value of T).
Uninit == [value |-> -1]

VARIABLES
    mem,     \* mem[a]: the object at address a, [value |-> v], or Uninit
    life,    \* life[c]: "none" (not constructed yet), "held", "consumed"
    addr,    \* addr[c]: the address c was constructed at (0: none yet)
    owner,   \* owner[c]: the thread that owns held cell c (0: none)
    shared,  \* shared[c]: the threads holding a &SyncUnsafeCell to c
    mutref,  \* mutref[c]: the address the live &mut T of get_mut points at (0: none)
    ptr,     \* ptr[t]: the raw pointer, *mut T, thread t holds (0: none)
    acc,     \* acc[t]: "idle", or the access through ptr[t] that t is in the
             \* middle of: "r" (a read), "w" (a write)
    inner,   \* inner[c]: what into_inner returned (-1: not called)
    hist     \* hist[c]: <<kind, v>>, the last write to c: "none" (v as
             \* constructed), "mut" (v through get_mut), "ptr" (raw pointer)

vars == <<mem, life, addr, owner, shared, mutref, ptr, acc, inner, hist>>

\* ---- the functions of lib.rs ----

\* pub const fn new(value: T) -> Self
new(value) == [value |-> value]

into_inner_default(self) == TDefault

\* pub fn into_inner(self) -> T
into_inner(self) == self.value

get_next_field(self) == self + ValueOffset + 1

\* pub const fn get(&self) -> *mut T; self is the address of the cell
get(self) == self + ValueOffset

get_mut_next_field(self) == self + ValueOffset + 1

\* pub fn get_mut(&mut self) -> &mut T; self is the address of the cell
get_mut(self) == self + ValueOffset

raw_get_next(this) == this + 1

\* pub const fn raw_get(this: *const Self) -> *mut T
raw_get(this) == this

\* fn default() -> SyncUnsafeCell<T>
default == new(TDefault)

from_default(t) == new(TDefault)

\* fn from(t: T) -> SyncUnsafeCell<T>
from(t) == new(t)

drop_ptr_owning(m, p) == [a \in DOMAIN m |-> IF a = p THEN Uninit ELSE m[a]]

\* A *mut T has no destructor: discarding it leaves memory as it is.
drop_ptr(m, p) == m

\* ---- helpers ----

Held(c) == life[c] = "held"

\* The held cell living at address a, if any.
CellsAt(a) == {c \in Cells : Held(c) /\ addr[c] = a}

FreeAddr(a) == CellsAt(a) = {}

\* A new cell is put at the lowest address that holds no cell.
NextAddr(a) == FreeAddr(a) /\ \A b \in Addrs : b < a => ~FreeAddr(b)

\* Cell ids are handed out in order.
NextCell(c) == life[c] = "none" /\ \A d \in Cells : d < c => life[d] # "none"

\* Some thread is in the middle of a raw-pointer write to address a.
WriterAt(a) == \E u \in Threads : acc[u] = "w" /\ ptr[u] = a

\* A thread is sequential: it calls nothing in the middle of an access.
Idle(t) == acc[t] = "idle"

HasRef(t, c) == t = owner[c] \/ t \in shared[c]

CanGetNoPtrs(t, c) ==
    /\ Held(c) /\ mutref[c] = 0 /\ HasRef(t, c)
    /\ \A u \in Threads \ {t} : ptr[u] = 0

CanGetNoAccess(t, c) ==
    /\ Held(c) /\ mutref[c] = 0 /\ HasRef(t, c)
    /\ \A u \in Threads \ {t} : Idle(u)

\* get(&self): the caller has a shared borrow of the cell.
CanGet(t, c) == Held(c) /\ mutref[c] = 0 /\ HasRef(t, c)

ExclusiveOwnerOnly(t, c) == Held(c) /\ owner[c] = t /\ mutref[c] = 0

ExclusiveIgnoresMut(t, c) == Held(c) /\ owner[c] = t /\ shared[c] = {}

\* get_mut(&mut self), into_inner(self): the caller has the cell to itself.
Exclusive(t, c) == Held(c) /\ owner[c] = t /\ shared[c] = {} /\ mutref[c] = 0

\* ---- construction ----

\* The first thread constructs the cells and owns them; the other threads
\* reach them through shared references and raw pointers.
Construct(t, c, a, v, cell) ==
    /\ Idle(t) /\ t = 1
    /\ NextCell(c)
    /\ NextAddr(a)
    /\ mem' = [mem EXCEPT ![a] = cell]
    /\ life' = [life EXCEPT ![c] = "held"]
    /\ addr' = [addr EXCEPT ![c] = a]
    /\ owner' = [owner EXCEPT ![c] = t]
    /\ hist' = [hist EXCEPT ![c] = IF WriterAt(a) THEN <<"ptr", 0>>
                                   ELSE <<"none", v>>]
    /\ UNCHANGED <<shared, mutref, ptr, acc, inner>>

CallNew(t, c, a, v) == Construct(t, c, a, v, new(v))

CallFrom(t, c, a, v) == Construct(t, c, a, v, from(v))

CallDefault(t, c, a) == Construct(t, c, a, TDefault, default)

\* ---- into_inner ----

CallIntoInner(t, c) ==
    /\ Idle(t)
    /\ Exclusive(t, c)
    /\ \E v \in Values :
         /\ ~WriterAt(addr[c]) => v = into_inner(mem[addr[c]])
         /\ inner' = [inner EXCEPT ![c] = v]
    /\ life' = [life EXCEPT ![c] = "consumed"]
    /\ owner' = [owner EXCEPT ![c] = 0]
    /\ mem' = [mem EXCEPT ![addr[c]] = Uninit]
    /\ UNCHANGED <<addr, shared, mutref, ptr, acc, hist>>

\* ---- shared references (T: Sync makes &SyncUnsafeCell<T> Send) ----

ShareRef(t, c) ==
    /\ Idle(t)
    /\ Held(c) /\ mutref[c] = 0
    /\ t # owner[c] /\ t \notin shared[c]
    /\ shared' = [shared EXCEPT ![c] = @ \cup {t}]
    /\ UNCHANGED <<mem, life, addr, owner, mutref, ptr, acc, inner, hist>>

DropRef(t, c) ==
    /\ Idle(t)
    /\ t \in shared[c]
    /\ shared' = [shared EXCEPT ![c] = @ \ {t}]
    /\ UNCHANGED <<mem, life, addr, owner, mutref, ptr, acc, inner, hist>>

\* ---- get, raw_get ----

CallGet(t, c) ==
    /\ Idle(t)
    /\ CanGet(t, c)
    /\ ptr' = [ptr EXCEPT ![t] = get(addr[c])]
    /\ UNCHANGED <<mem, life, addr, owner, shared, mutref, acc, inner, hist>>

CallRawGet(t, this) ==
    /\ Idle(t)
    /\ ptr' = [ptr EXCEPT ![t] = raw_get(this)]
    /\ UNCHANGED <<mem, life, addr, owner, shared, mutref, acc, inner, hist>>

\* ---- get_mut and the reference it returns ----

CallGetMut(t, c) ==
    /\ Idle(t)
    /\ Exclusive(t, c)
    /\ mutref' = [mutref EXCEPT ![c] = get_mut(addr[c])]
    /\ UNCHANGED <<mem, life, addr, owner, shared, ptr, acc, inner, hist>>

WriteMut(t, c, v) ==
    /\ Idle(t)
    /\ Held(c) /\ owner[c] = t /\ mutref[c] # 0
    /\ mem' = IF mutref[c] \in Addrs THEN [mem EXCEPT ![mutref[c]] = [value |-> v]]
              ELSE mem
    /\ hist' = [hist EXCEPT ![c] = IF WriterAt(addr[c]) THEN <<"ptr", 0>>
                                   ELSE <<"mut", v>>]
    /\ UNCHANGED <<life, addr, owner, shared, mutref, ptr, acc, inner>>

DropMut(t, c) ==
    /\ Idle(t)
    /\ Held(c) /\ owner[c] = t /\ mutref[c] # 0
    /\ mutref' = [mutref EXCEPT ![c] = 0]
    /\ UNCHANGED <<mem, life, addr, owner, shared, ptr, acc, inner, hist>>

\* ---- the callers' accesses through raw pointers ----

MarkPtr(a) == [c \in Cells |-> IF c \in CellsAt(a) THEN <<"ptr", 0>> ELSE hist[c]]

PtrWriteBegin(t) ==
    /\ Idle(t)
    /\ ptr[t] \in Addrs
    /\ acc' = [acc EXCEPT ![t] = "w"]
    /\ hist' = MarkPtr(ptr[t])
    /\ UNCHANGED <<mem, life, addr, owner, shared, mutref, ptr, inner>>

PtrWriteEnd(t, v) ==
    /\ acc[t] = "w"
    /\ acc' = [acc EXCEPT ![t] = "idle"]
    /\ mem' = [mem EXCEPT ![ptr[t]] = IF @ = Uninit THEN @ ELSE [value |-> v]]
    /\ hist' = MarkPtr(ptr[t])
    /\ UNCHANGED <<life, addr, owner, shared, mutref, ptr, inner>>

PtrReadBegin(t) ==
    /\ Idle(t)
    /\ ptr[t] \in Addrs
    /\ acc' = [acc EXCEPT ![t] = "r"]
    /\ UNCHANGED <<mem, life, addr, owner, shared, mutref, ptr, inner, hist>>

PtrReadEnd(t) ==
    /\ acc[t] = "r"
    /\ acc' = [acc EXCEPT ![t] = "idle"]
    /\ UNCHANGED <<mem, life, addr, owner, shared, mutref, ptr, inner, hist>>

CopyPtr(t, u) ==
    /\ Idle(t) /\ Idle(u)
    /\ ptr[t] # 0 /\ ptr[u] # ptr[t]
    /\ ptr' = [ptr EXCEPT ![u] = ptr[t]]
    /\ UNCHANGED <<mem, life, addr, owner, shared, mutref, acc, inner, hist>>

DiscardPtr(t) ==
    /\ Idle(t)
    /\ ptr[t] # 0
    /\ ptr' = [ptr EXCEPT ![t] = 0]
    /\ mem' = drop_ptr(mem, ptr[t])
    /\ UNCHANGED <<life, addr, owner, shared, mutref, acc, inner, hist>>

\* ---- the specification ----

Init ==
    /\ mem = [a \in Addrs |-> Uninit]
    /\ life = [c \in Cells |-> "none"]
    /\ addr = [c \in Cells |-> 0]
    /\ owner = [c \in Cells |-> 0]
    /\ shared = [c \in Cells |-> {}]
    /\ mutref = [c \in Cells |-> 0]
    /\ ptr = [t \in Threads |-> 0]
    /\ acc = [t \in Threads |-> "idle"]
    /\ inner = [c \in Cells |-> -1]
    /\ hist = [c \in Cells |-> <<"none", 0>>]

Next ==
    \/ \E t \in Threads, c \in Cells, a \in Addrs, v \in Values : CallNew(t, c, a, v)
    \/ \E t \in Threads, c \in Cells, a \in Addrs, v \in Values : CallFrom(t, c, a, v)
    \/ \E t \in Threads, c \in Cells, a \in Addrs : CallDefault(t, c, a)
    \/ \E t \in Threads, c \in Cells : CallIntoInner(t, c)
    \/ \E t \in Threads, c \in Cells : ShareRef(t, c)
    \/ \E t \in Threads, c \in Cells : DropRef(t, c)
    \/ \E t \in Threads, c \in Cells : CallGet(t, c)
    \/ \E t \in Threads, p \in Addrs : CallRawGet(t, p)
    \/ \E t \in Threads, c \in Cells : CallGetMut(t, c)
    \/ \E t \in Threads, c \in Cells, v \in Values : WriteMut(t, c, v)
    \/ \E t \in Threads, c \in Cells : DropMut(t, c)
    \/ \E t \in Threads : PtrWriteBegin(t)
    \/ \E t \in Threads, v \in Values : PtrWriteEnd(t, v)
    \/ \E t \in Threads : PtrReadBegin(t)
    \/ \E t \in Threads : PtrReadEnd(t)
    \/ \E t \in Threads, u \in Threads : CopyPtr(t, u)
    \/ \E t \in Threads : DiscardPtr(t)

Spec == Init /\ [][Next]_vars

\* ---- the claims ----

\* C1: round trip. A cell constructed from v and consumed by into_inner, with
\* no write to it in between, returned v.
RoundTrip ==
    \A c \in Cells :
        (life[c] = "consumed" /\ hist[c][1] = "none") => inner[c] = hist[c][2]

RoundTripWitness ==
    \E c \in Cells : life[c] = "consumed" /\ hist[c] = <<"none", MaxVal>>

\* C2: a cell whose last write went through the reference returned by get_mut
\* holds the value written, and into_inner returns it.
GetMutWriteKept ==
    \A c \in Cells :
        hist[c][1] = "mut" =>
            /\ Held(c) => mem[addr[c]] = [value |-> hist[c][2]]
            /\ life[c] = "consumed" => inner[c] = hist[c][2]

GetMutWriteKeptWitness ==
    \E c \in Cells :
        life[c] = "consumed" /\ hist[c] = <<"mut", MaxVal>> /\ inner[c] = MaxVal

\* C3: pointer equivalence. get on a held cell returns the address of the cell,
\* raw_get of the address of the cell returns the same address, and a held cell
\* keeps its address.
PointerEquivalence ==
    [][\A c \in Cells :
          /\ \A t \in Threads : CallGet(t, c) => ptr'[t] = addr[c]
          /\ \A t \in Threads :
               (Held(c) /\ CallRawGet(t, addr[c])) =>
                   (ptr'[t] = addr[c] /\ ptr'[t] = get(addr[c]))
          /\ (Held(c) /\ life'[c] = "held") => addr'[c] = addr[c]]_vars

PointerEquivalenceWitness ==
    \E c \in Cells, t \in Threads, u \in Threads :
        Held(c) /\ t # u /\ ptr[t] = addr[c] /\ ptr[u] = addr[c]

\* C4: raw_get returns the address it was given and changes nothing else,
\* whatever the memory at that address is (no live object, a consumed cell,
\* a value another thread is writing).
RawGetNoDeref ==
    [][\A t \in Threads, p \in Addrs :
          CallRawGet(t, p) =>
              /\ ptr'[t] = p
              /\ \A u \in Threads \ {t} : ptr'[u] = ptr[u]
              /\ UNCHANGED <<mem, life, addr, owner, shared, mutref, acc, inner, hist>>]_vars

\* A thread holds a pointer to an address where no cell was ever constructed.
RawGetNoDerefWitness ==
    \E t \in Threads : ptr[t] \in Addrs /\ \A c \in Cells : addr[c] # ptr[t]

\* C5: a step of from(v) is a step of new(v) and the reverse, a step of
\* default() is a step of new(T::default()) and the reverse, and the cell
\* default() makes unwraps to T's default value.
ConvenienceEquivalence ==
    [][life' # life =>
          \A t \in Threads, c \in Cells, a \in Addrs :
              /\ \A v \in Values : CallFrom(t, c, a, v) <=> CallNew(t, c, a, v)
              /\ CallDefault(t, c, a) <=> CallNew(t, c, a, TDefault)
              /\ CallDefault(t, c, a) => into_inner(mem'[a]) = TDefault]_vars

\* A cell constructed with T's default value was unwrapped to it.
ConvenienceEquivalenceWitness ==
    \E c \in Cells :
        life[c] = "consumed" /\ hist[c] = <<"none", TDefault>> /\ inner[c] = TDefault

\* C6: no mutual exclusion. Whatever access another thread is in the middle of,
\* a thread with a shared reference can take a pointer with get, and a thread
\* with a pointer can begin a read or a write through it.
NoMutualExclusion ==
    \A t \in Threads :
        Idle(t) =>
            /\ \A c \in Cells :
                 (Held(c) /\ mutref[c] = 0 /\ (t = owner[c] \/ t \in shared[c]))
                     => ENABLED CallGet(t, c)
            /\ ptr[t] \in Addrs => (ENABLED PtrWriteBegin(t) /\ ENABLED PtrReadBegin(t))

\* One thread is writing the inner value while another reads or writes it.
RaceReached ==
    \E c \in Cells, t \in Threads, u \in Threads :
        /\ Held(c) /\ t # u
        /\ ptr[t] = addr[c] /\ acc[t] = "w"
        /\ ptr[u] = addr[c] /\ acc[u] # "idle"

\* C7: every operation is total. In every state, a caller that has what the
\* receiver of the operation asks for can take the step.
Totality ==
    \A t \in Threads :
        Idle(t) =>
            /\ \A p \in Addrs : ENABLED CallRawGet(t, p)
            /\ \A c \in Cells :
                 /\ (Held(c) /\ mutref[c] = 0 /\ (t = owner[c] \/ t \in shared[c]))
                        => ENABLED CallGet(t, c)
                 /\ (Held(c) /\ owner[c] = t /\ shared[c] = {} /\ mutref[c] = 0)
                        => (ENABLED CallGetMut(t, c) /\ ENABLED CallIntoInner(t, c))
                 /\ \A a \in Addrs, v \in Values :
                      (t = 1 /\ NextCell(c) /\ NextAddr(a)) => ENABLED CallNew(t, c, a, v)

\* A thread took a pointer with get through a shared reference while another
\* thread, holding a pointer too, was reading.
TotalityWitness ==
    \E c \in Cells, t \in Threads, u \in Threads :
        /\ Held(c) /\ t # u /\ t \in shared[c]
        /\ ptr[t] = addr[c] /\ Idle(t)
        /\ ptr[u] = addr[c] /\ acc[u] = "r"

\* C8, as claimed: no raw pointer refers to a cell that was consumed.
NoPointerOutlivesCell ==
    \A t \in Threads, c \in Cells :
        (life[c] = "consumed" /\ FreeAddr(addr[c])) => ptr[t] # addr[c]

\* C8, amended: raw pointers are non-owning. Copying or discarding one changes
\* no cell and no memory, and into_inner leaves the pointers as they are.
PointersNonOwning ==
    [][\A t \in Threads :
          /\ (DiscardPtr(t) \/ \E u \in Threads : CopyPtr(t, u)) =>
                 UNCHANGED <<mem, life, addr, owner, shared, mutref, inner, hist>>
          /\ \A c \in Cells : CallIntoInner(t, c) => ptr' = ptr]_vars

DanglingPointer ==
    \E t \in Threads, c \in Cells :
        life[c] = "consumed" /\ FreeAddr(addr[c]) /\ ptr[t] = addr[c]

\* C9: lifecycle. A cell is held (from its construction by new, default or
\* from) or consumed; only into_inner takes it from held to consumed, consumed
\* is final, get, get_mut and raw_get leave the lifecycle alone, and a
\* consumed cell has no reference left and takes no call.
Lifecycle ==
    [][\A c \in Cells :
          /\ life'[c] \in {"none", "held", "consumed"}
          /\ (life[c] = "none" /\ life'[c] # "none") =>
                 /\ life'[c] = "held"
                 /\ \E t \in Threads, a \in Addrs :
                      \/ CallDefault(t, c, a)
                      \/ \E v \in Values : CallNew(t, c, a, v) \/ CallFrom(t, c, a, v)
          /\ (life[c] = "held" /\ life'[c] # "held") =>
                 (life'[c] = "consumed" /\ \E t \in Threads : CallIntoInner(t, c))
          /\ life[c] = "consumed" =>
                 /\ life'[c] = "consumed"
                 /\ ~ \E t \in Threads :
                        CallGet(t, c) \/ CallGetMut(t, c) \/ CallIntoInner(t, c)
          /\ life'[c] # life[c] =>
                 ~ \E t \in Threads :
                      \/ \E d \in Cells : CallGet(t, d) \/ CallGetMut(t, d)
                      \/ \E p \in Addrs : CallRawGet(t, p)
          /\ life'[c] = "consumed" => (shared'[c] = {} /\ mutref'[c] = 0)]_vars

LifecycleWitness ==
    \E c \in Cells, t \in Threads :
        life[c] = "consumed" /\ inner[c] = MaxVal /\ ptr[t] = 0

\* C10: while the reference returned by get_mut is live, no shared reference to
\* the cell exists and nobody can call get, get_mut or into_inner on the cell
\* or take a shared reference to it.
GetMutExclusive ==
    \A c \in Cells :
        mutref[c] # 0 =>
            /\ Held(c) /\ shared[c] = {}
            /\ \A t \in Threads :
                 /\ ~ ENABLED CallGet(t, c)
                 /\ ~ ENABLED CallGetMut(t, c)
                 /\ ~ ENABLED CallIntoInner(t, c)
                 /\ ~ ENABLED ShareRef(t, c)

GetMutExclusiveWitness ==
    \E c \in Cells : mutref[c] # 0 /\ hist[c] = <<"mut", MaxVal>>

====
